---------------------------- MODULE Spec2Model ----------------------------
(***************************************************************************)
(* Windowing, collation and weighted aggregation of                        *)
(* src/src/audiobox_aesthetics/infer.py.                                   *)
(*                                                                         *)
(* A waveform is a mono tensor of shape (1, L); it is modelled as the      *)
(* sequence of its L samples.  Samples are integers; every real sample of  *)
(* the inputs is non-zero and tells which clip and which position it came  *)
(* from, so that slicing, padding and grouping can be observed.  Floating  *)
(* point quotients are modelled as exact fractions [num, den]; the         *)
(* quotient 0/0 of two tensors is the fraction NaN.                        *)
(***************************************************************************)
EXTENDS Integers, Sequences, FiniteSets, TLC

VARIABLES pc, call, ret, out, predictor, log, model_calls

vars == <<pc, call, ret, out, predictor, log, model_calls>>

(* ------------------------------ bounds -------------------------------- *)
\* SpecBatch: clips per call, samples per clip, and the argument ranges.
MaxClips == 2
MaxLen == 6
MaxHopSize == 3
MaxWindowSize == 3
MaxSampleRate == 2
\* The family of deterministic scoring backends is indexed 0..MaxBackend.
MaxBackend == 0

\* SpecPredict: clips per forward_versa call and samples per clip.
MaxBatch == 2
MaxClipLen == 25
\* main_predict: entries of the metadata list.
MaxMeta == 3
\* self.sample_rate is 16000 in the source; the model counts SAMPLE_RATE
\* samples per second, so that a 10 s window holds 10 * SAMPLE_RATE samples.
SAMPLE_RATE == 1

(* ----------------------------- constants ------------------------------ *)
AXES_NAME == <<"CE", "CU", "PC", "PQ">>

\* forward_versa's hop_size and window_size arguments, in seconds.
HOP_SIZE == 10
WINDOW_SIZE == 10

NoValue == [raised |-> "not called"]

(* ----------------------------- arithmetic ----------------------------- *)
Min(a, b) == IF a < b THEN a ELSE b

Abs(a) == IF a < 0 THEN 0 - a ELSE a

RECURSIVE GCD(_, _)
GCD(a, b) == IF b = 0 THEN a ELSE GCD(b, a % b)

\* The float n / d for d > 0, as a fraction in lowest terms.
Rat(n, d) ==
    LET g == GCD(Abs(n), d)
    IN  [num |-> n \div g, den |-> d \div g]

NaN == [num |-> 0, den |-> 0]

Inf(sign) == [num |-> sign, den |-> 0]

IsFinite(x) == x.den > 0

\* tensor * tensor, elementwise, on one element
RatMulInt(p, w) == IF IsFinite(w) THEN Rat(p * w.num, w.den) ELSE NaN

RatAdd(a, b) ==
    IF IsFinite(a) /\ IsFinite(b)
    THEN Rat(a.num * b.den + b.num * a.den, a.den * b.den)
    ELSE NaN

\* tensor / tensor on one element: IEEE division, 0/0 is NaN, x/0 is +-Inf.
RatDiv(a, b) ==
    IF ~(IsFinite(a) /\ IsFinite(b)) THEN NaN
    ELSE IF b.num = 0
         THEN (IF a.num = 0 THEN NaN ELSE Inf(IF a.num > 0 THEN 1 ELSE 0 - 1))
         ELSE IF b.num > 0 THEN Rat(a.num * b.den, a.den * b.num)
              ELSE Rat(0 - (a.num * b.den), a.den * (0 - b.num))

\* Python's int / int: a float, or ZeroDivisionError.
TrueDiv(a, b) == IF b = 0 THEN [raised |-> "ZeroDivisionError"]
                          ELSE [raised |-> "none", value |-> Rat(a, b)]

(* ------------------------- make_inference_batch ----------------------- *)
\* Mutant of RangeFrom: the stop value itself is still visited.
RECURSIVE RangeFromInclusive(_, _, _)
RangeFromInclusive(ii, stop, step) ==
    IF ii > stop THEN <<>> ELSE <<ii>> \o RangeFromInclusive(ii + step, stop, step)

\* range(start, stop, step) for step >= 1, as the list of its values.
RECURSIVE RangeFrom(_, _, _)
RangeFrom(ii, stop, step) ==
    IF ii >= stop THEN <<>> ELSE <<ii>> \o RangeFrom(ii + step, stop, step)

\* range(0, stop, step): ValueError when step is zero.
PyRange(stop, step) ==
    IF step = 0 THEN [raised |-> "ValueError"]
    ELSE [raised |-> "none", values |-> RangeFrom(0, stop, step)]

\* Mutant of Slice: the last sample of the slice is left out.
SliceShort(wav, a, b) == SubSeq(wav, a + 1, Min(b, Len(wav)) - 1)

\* wav[..., a : b] for 0 <= a <= b: the slice is clipped to the tensor.
Slice(wav, a, b) == SubSeq(wav, a + 1, Min(b, Len(wav)))

\* F.pad(wav_ii, (0, n)): n zeros appended on the right.
Pad(wav_ii, n) == wav_ii \o [j \in 1..n |-> 0]

\* torch.zeros_like(wav_ii, dtype=torch.bool)
ZerosLikeBool(wav_ii) == [j \in 1..Len(wav_ii) |-> FALSE]

\* Mutant of SetTruePrefix: the last real sample is left masked out.
SetTruePrefixShort(mask_ii, n) ==
    [j \in 1..Len(mask_ii) |-> IF j < n THEN TRUE ELSE mask_ii[j]]

\* mask_ii[:, 0:n] = True
SetTruePrefix(mask_ii, n) ==
    [j \in 1..Len(mask_ii) |-> IF j <= n THEN TRUE ELSE mask_ii[j]]

\* The window taken at offset ii: the padded slice.
WindowWav(wav, ii, winlen, pad_zero) ==
    LET wav_ii == Slice(wav, ii, ii + winlen)
        wav_ii_len == Len(wav_ii)
    IN  IF wav_ii_len < winlen /\ pad_zero
        THEN Pad(wav_ii, winlen - wav_ii_len)
        ELSE wav_ii

\* The mask of the window taken at offset ii.
WindowMask(wav, ii, winlen, pad_zero) ==
    LET wav_ii_len == Len(Slice(wav, ii, ii + winlen))
    IN  SetTruePrefix(ZerosLikeBool(WindowWav(wav, ii, winlen, pad_zero)),
                      wav_ii_len)

\* Mutant of WindowWeight: the samples left in the clip, not in the slice.
WindowWeightUnclipped(wav, ii, winlen) == TrueDiv(Len(wav) - ii, winlen)

\* wav_ii_len / winlen
WindowWeight(wav, ii, winlen) ==
    TrueDiv(Len(Slice(wav, ii, ii + winlen)), winlen)

\* Mutant of WindowStep: the clip ids count from 1.
WindowStepFromOne(acc, bid, wav, ii, winlen, pad_zero) ==
    LET w == WindowWeight(wav, ii, winlen)
    IN  IF acc.raised # "none" THEN acc
        ELSE IF w.raised # "none"
        THEN [raised |-> w.raised, wavs |-> <<>>, masks |-> <<>>,
              weights |-> <<>>, bids |-> <<>>]
        ELSE [raised  |-> "none",
              wavs    |-> Append(acc.wavs, WindowWav(wav, ii, winlen, pad_zero)),
              masks   |-> Append(acc.masks, WindowMask(wav, ii, winlen, pad_zero)),
              weights |-> Append(acc.weights, w.value),
              bids    |-> Append(acc.bids, bid + 1)]

\* One pass of the inner loop body; acc holds the four lists.
WindowStep(acc, bid, wav, ii, winlen, pad_zero) ==
    LET w == WindowWeight(wav, ii, winlen)
    IN  IF acc.raised # "none" THEN acc
        ELSE IF w.raised # "none"
        THEN [raised |-> w.raised, wavs |-> <<>>, masks |-> <<>>,
              weights |-> <<>>, bids |-> <<>>]
        ELSE [raised  |-> "none",
              wavs    |-> Append(acc.wavs, WindowWav(wav, ii, winlen, pad_zero)),
              masks   |-> Append(acc.masks, WindowMask(wav, ii, winlen, pad_zero)),
              weights |-> Append(acc.weights, w.value),
              bids    |-> Append(acc.bids, bid)]

\* for ii in range(0, wav.shape[-1], offset): ...
RECURSIVE InnerLoop(_, _, _, _, _, _)
InnerLoop(acc, bid, wav, offs, winlen, pad_zero) ==
    IF offs = <<>> THEN acc
    ELSE InnerLoop(WindowStep(acc, bid, wav, Head(offs), winlen, pad_zero),
                   bid, wav, Tail(offs), winlen, pad_zero)

\* for bid, wav in enumerate(input_wavs): ...   (bid counts from 0)
RECURSIVE OuterLoop(_, _, _, _, _, _)
OuterLoop(acc, input_wavs, bid, offset, winlen, pad_zero) ==
    IF bid >= Len(input_wavs) \/ acc.raised # "none" THEN acc
    ELSE LET wav == input_wavs[bid + 1]
             r == PyRange(Len(wav), offset)
         IN  IF r.raised # "none"
             THEN [raised |-> r.raised, wavs |-> <<>>, masks |-> <<>>,
                   weights |-> <<>>, bids |-> <<>>]
             ELSE OuterLoop(InnerLoop(acc, bid, wav, r.values, winlen, pad_zero),
                            input_wavs, bid + 1, offset, winlen, pad_zero)

make_inference_batch(input_wavs, hop_size, window_size, sample_rate, pad_zero) ==
    LET offset == hop_size * sample_rate
        winlen == window_size * sample_rate
    IN  OuterLoop([raised |-> "none", wavs |-> <<>>, masks |-> <<>>,
                   weights |-> <<>>, bids |-> <<>>],
                  input_wavs, 0, offset, winlen, pad_zero)

(* ----------------------------- the predictor ------------------------- *)
\* {"16": torch.float16, "bf16": torch.bfloat16}.get(precision, default)
DtypeGet(precision, default) ==
    IF precision = "16" THEN "float16"
    ELSE IF precision = "bf16" THEN "bfloat16"
    ELSE default

\* The parameters __init__ accepts besides self.
InitParams == {"checkpoint_pth", "precision", "batch_size", "device"}

\* The methods the class defines.
PredictorMethods == {"__init__", "setup_model", "audio_resample_mono",
                     "audio_resample_mono_versa", "forward_versa"}

\* ckpt["target_transform"][axis] of checkpoint number checkpoint_pth: the
\* checkpoint fixes the weights of the model and the per-axis mean and std.
TargetTransform(checkpoint_pth) ==
    [a \in 1..Len(AXES_NAME) |-> [mean |-> checkpoint_pth + a, std |-> a]]

\* setup_model: loads the model and the transforms, and sets self.dtype again,
\* this time with no default: .get(self.precision) is None for other keys.
setup_model(self) ==
    [self EXCEPT !.model = self.checkpoint_pth,
                 !.dtype = DtypeGet(self.precision, "None"),
                 !.target_transform = TargetTransform(self.checkpoint_pth)]

\* The warning __init__ logs when it falls back to float32.
InitWarnings(precision) ==
    IF DtypeGet(precision, "float32") = "float32"
    THEN <<[level |-> "WARNING", precision |-> precision,
            message |-> "is not supported, using float32 instead"]>>
    ELSE <<>>

\* AesWavlmPredictorMultiOutput(**kwargs): TypeError on a keyword __init__
\* does not take (the dataclass decorator keeps the class's own __init__).
Construct(kwargs) ==
    IF ~(DOMAIN kwargs \subseteq InitParams) \/ "checkpoint_pth" \notin DOMAIN kwargs
    THEN [raised |-> "TypeError"]
    ELSE LET precision == IF "precision" \in DOMAIN kwargs
                          THEN kwargs.precision ELSE "bf16"
             self == [raised |-> "none",
                      checkpoint_pth |-> kwargs.checkpoint_pth,
                      precision |-> precision,
                      batch_size |-> IF "batch_size" \in DOMAIN kwargs
                                     THEN kwargs.batch_size ELSE 1,
                      sample_rate |-> SAMPLE_RATE,
                      dtype |-> DtypeGet(precision, "float32"),
                      model |-> "unset",
                      target_transform |-> "unset"]
         IN  setup_model(self)

(* ------------------------------ forward_versa ------------------------- *)
\* The raw score of one window on axis a (1..4) under the model of a
\* checkpoint: a deterministic function of the window and its mask.
ModelScore(model, a, wav, mask) ==
    wav[1] + model * a + Cardinality({j \in DOMAIN mask : mask[j]})

\* self.model({"wav": wavs, "mask": masks}): per axis, one score per window.
ModelForward(model, wavs, masks) ==
    [a \in 1..Len(AXES_NAME) |->
        [w \in 1..Len(wavs) |-> ModelScore(model, a, wavs[w], masks[w])]]

\* Normalize.inverse
Inverse(tt, x) == x * tt.std + tt.mean

\* Mutant of StackOk: the shapes are not compared.
StackNonEmpty(tensors) == Len(tensors) > 0

\* torch.stack(tensors) succeeds on a non-empty list of equal shapes.
StackOk(tensors) ==
    /\ Len(tensors) > 0
    /\ \A v, w \in 1..Len(tensors) : Len(tensors[v]) = Len(tensors[w])

\* Mutant of MaskedSelect: the windows of the earlier clips are selected too.
RECURSIVE MaskedSelectUpTo(_, _, _)
MaskedSelectUpTo(t, bids, bii) ==
    IF t = <<>> THEN <<>>
    ELSE (IF Head(bids) <= bii THEN <<Head(t)>> ELSE <<>>)
         \o MaskedSelectUpTo(Tail(t), Tail(bids), bii)

\* t[bids == bii]: the entries of t at the positions where bids equals bii.
RECURSIVE MaskedSelect(_, _, _)
MaskedSelect(t, bids, bii) ==
    IF t = <<>> THEN <<>>
    ELSE (IF Head(bids) = bii THEN <<Head(t)>> ELSE <<>>)
         \o MaskedSelect(Tail(t), Tail(bids), bii)

\* tensor.sum() of a tensor of fractions; the empty sum is 0.
RECURSIVE SumRat(_)
SumRat(t) == IF t = <<>> THEN Rat(0, 1) ELSE RatAdd(Head(t), SumRat(Tail(t)))

\* (preds[bids == bii] * weights_bii).sum() / weights_bii.sum()
WeightedPred(preds, weights, bids, bii) ==
    LET weights_bii == MaskedSelect(weights, bids, bii)
        preds_bii == MaskedSelect(preds, bids, bii)
        prod == [w \in 1..Len(preds_bii) |-> RatMulInt(preds_bii[w], weights_bii[w])]
    IN  RatDiv(SumRat(prod), SumRat(weights_bii))

\* json.dumps(dict(zip(keys, vv))): the keys in order, each with its number.
json_dumps(keys, vv) == [a \in 1..Len(keys) |-> <<keys[a], vv[a]>>]

\* Lines 192-219: collate the windows, score them, aggregate per clip.
CollateAndScore(self, bsz, mib) ==
    IF ~StackOk(mib.wavs) \/ ~StackOk(mib.masks)
    THEN [raised |-> "RuntimeError", rows |-> <<>>, model_calls |-> 0]
    ELSE IF ~(Len(mib.wavs) = Len(mib.masks) /\ Len(mib.masks) = Len(mib.weights)
              /\ Len(mib.weights) = Len(mib.bids))
    THEN [raised |-> "AssertionError", rows |-> <<>>, model_calls |-> 0]
    ELSE LET preds_all == ModelForward(self.model, mib.wavs, mib.masks)
             preds(a) == [w \in 1..Len(mib.wavs) |->
                             Inverse(self.target_transform[a], preds_all[a][w])]
             all_result == [a \in 1..Len(AXES_NAME) |->
                               [b \in 1..bsz |->
                                   WeightedPred(preds(a), mib.weights, mib.bids, b - 1)]]
         IN  [raised |-> "none",
              rows |-> [b \in 1..bsz |->
                          json_dumps(AXES_NAME,
                                     [a \in 1..Len(AXES_NAME) |-> all_result[a][b]])],
              model_calls |-> 1]

\* audio_resample_mono_versa for 1-d arrays already at self.sample_rate:
\* resampling returns the samples unchanged, unsqueeze(0) adds the channel.
audio_resample_mono_versa(self, data_list) ==
    [k \in 1..Len(data_list) |-> data_list[k].wav]

\* The windows forward_versa cuts: hop 10 s, window 10 s, pad_zero defaulted.
forward_versa_windows(self, batch) ==
    make_inference_batch(audio_resample_mono_versa(self, batch),
                         HOP_SIZE, WINDOW_SIZE, self.sample_rate, TRUE)

\* forward_versa; the windows it cut are kept beside the result.
forward_versa(self, batch) ==
    LET mib == forward_versa_windows(self, batch)
        r == IF mib.raised # "none"
             THEN [raised |-> mib.raised, rows |-> <<>>, model_calls |-> 0]
             ELSE CollateAndScore(self, Len(batch), mib)
    IN  [windows |-> mib, result |-> r]

(* ------------------------------ main_predict -------------------------- *)
\* initialize_model(ckpt): passes data_col="path" to the constructor.
initialize_model(ckpt) ==
    Construct([checkpoint_pth |-> ckpt, data_col |-> "path"])

\* for ii in range(0, len(metadata), batch_size):
\*     output = predictor.forward(metadata[ii : ii + batch_size])
\* The class defines no method forward: the first pass raises AttributeError.
ChunkLoop(p, metadata, batch_size) ==
    IF RangeFrom(0, Len(metadata), batch_size) = <<>>
    THEN [raised |-> "none", rows |-> <<>>]
    ELSE IF "forward" \notin PredictorMethods
    THEN [raised |-> "AttributeError", rows |-> <<>>]
    ELSE [raised |-> "not modelled", rows |-> <<>>]

main_predict(input_file, ckpt, batch_size) ==
    LET p == initialize_model(ckpt)
    IN  IF p.raised # "none" THEN [raised |-> p.raised, rows |-> <<>>]
        ELSE LET r == ChunkLoop(p, input_file, batch_size)
             IN  IF r.raised # "none" THEN r
                 ELSE IF Len(r.rows) # Len(input_file)
                 THEN [raised |-> "AssertionError", rows |-> <<>>]
                 ELSE r

(* ------------------------------- inputs ------------------------------- *)
\* Sample j (from 1) of the clip at position k (from 0) of a list whose
\* clips hold at most maxlen samples: non-zero and unique in the list.
Sample(k, j, maxlen) == k * (maxlen + 1) + j

Wave(k, L, maxlen) == [j \in 1..L |-> Sample(k, j, maxlen)]

\* The lists of at most n clips with the given lengths.
WaveLists(n, lens, maxlen) ==
    UNION {
        {[k \in 1..m |-> Wave(k - 1, ls[k], maxlen)] : ls \in [1..m -> lens]}
        : m \in 0..n }

(* ------------------------------ SpecBatch ----------------------------- *)
InitBatch ==
    /\ pc = "start"
    /\ call \in [input_wavs : WaveLists(MaxClips, 0..MaxLen, MaxLen),
                 hop_size : 0..MaxHopSize,
                 window_size : 0..MaxWindowSize,
                 sample_rate : 1..MaxSampleRate,
                 pad_zero : BOOLEAN]
    /\ ret = NoValue
    /\ out = NoValue
    /\ predictor \in {Construct([checkpoint_pth |-> c]) : c \in 0..MaxBackend}
    /\ log = <<>>
    /\ model_calls = 0

MakeInferenceBatch ==
    /\ pc = "start"
    /\ ret' = make_inference_batch(call.input_wavs, call.hop_size,
                                   call.window_size, call.sample_rate,
                                   call.pad_zero)
    /\ pc' = "batched"
    /\ UNCHANGED <<call, out, predictor, log, model_calls>>

\* The collate, score and aggregate steps of forward_versa on the windows.
Collate ==
    /\ pc = "batched"
    /\ ret.raised = "none"
    /\ out' = CollateAndScore(predictor, Len(call.input_wavs), ret)
    /\ model_calls' = model_calls + out'.model_calls
    /\ pc' = "collated"
    /\ UNCHANGED <<call, ret, predictor, log>>

NextBatch == MakeInferenceBatch \/ Collate

SpecBatch == InitBatch /\ [][NextBatch]_vars

(* ----------------------------- SpecPredict ---------------------------- *)
Precisions == {"16", "bf16", "32"}

\* A forward_versa batch: (wav, sr) pairs at the predictor's sample rate.
Batches ==
    {[k \in 1..Len(ws) |-> [wav |-> ws[k], sr |-> SAMPLE_RATE]] :
        ws \in WaveLists(MaxBatch, 0..MaxClipLen, MaxClipLen)}

InitPredict ==
    /\ pc = "new"
    /\ call = NoValue
    /\ ret = NoValue
    /\ out = NoValue
    /\ predictor = NoValue
    /\ log = <<>>
    /\ model_calls = 0

\* AesWavlmPredictorMultiOutput(checkpoint_pth[, precision])
New ==
    /\ pc = "new"
    /\ \E c \in 0..MaxBackend :
         \E kwargs \in {[checkpoint_pth |-> c]}
                       \cup {[checkpoint_pth |-> c, precision |-> p] : p \in Precisions} :
           LET self == Construct(kwargs)
           IN  /\ predictor' = self
               /\ log' = log \o InitWarnings(self.precision)
    /\ pc' = "ready"
    /\ UNCHANGED <<call, ret, out, model_calls>>

\* predictor.forward_versa(batch)
ForwardVersa ==
    /\ pc = "ready"
    /\ \E batch \in Batches :
         \E r \in {forward_versa(predictor, batch)} :
             /\ call' = [batch |-> batch]
             /\ ret' = r.windows
             /\ out' = r.result
    /\ model_calls' = model_calls + out'.model_calls
    /\ pc' = "returned"
    /\ UNCHANGED <<predictor, log>>

\* main_predict(input_file, ckpt, batch_size) on a list of metadata records
MainPredict ==
    /\ pc = "new"
    /\ \E n \in 0..MaxMeta, c \in 0..MaxBackend, batch_size \in 1..MaxBatch :
         /\ call' = [input_file |-> [k \in 1..n |-> [path |-> k]],
                     ckpt |-> c, batch_size |-> batch_size]
         /\ out' = main_predict(call'.input_file, c, batch_size)
    /\ pc' = "main_done"
    /\ UNCHANGED <<ret, predictor, log, model_calls>>

NextPredict == New \/ ForwardVersa \/ MainPredict

SpecPredict == InitPredict /\ [][NextPredict]_vars

(* ======================= properties of SpecBatch ====================== *)
Offset == call.hop_size * call.sample_rate

Winlen == call.window_size * call.sample_rate

\* make_inference_batch has returned its four lists.
Batched == pc \in {"batched", "collated"} /\ ret.raised = "none"

\* The clip (from 0) and the position (from 1) a real sample came from.
ClipOfSample(s) == s \div (MaxLen + 1)

PosOfSample(s) == s % (MaxLen + 1)

ClipLen(k) == Len(call.input_wavs[k + 1])

\* The positions, in the returned lists, of the windows tagged with clip k.
WindowsOf(k) == {w \in 1..Len(ret.bids) : ret.bids[w] = k}

\* The n-th (from 1) window tagged with clip k, in list order.
NthWindowOf(k, n) ==
    CHOOSE w \in WindowsOf(k) : Cardinality({v \in WindowsOf(k) : v <= w}) = n

\* The start offset of window w, read off its first sample (-1 if it has none).
StartOf(w) ==
    IF Len(ret.wavs[w]) = 0 \/ ret.wavs[w][1] = 0 THEN 0 - 1
    ELSE PosOfSample(ret.wavs[w][1]) - 1

Ceil(a, b) == (a + b - 1) \div b

\* The number of real samples the slice at the start of window w holds.
ActualLength(w) == Min(Winlen, ClipLen(ret.bids[w]) - StartOf(w))

\* C1 as stated: with hop >= 1 every clip of length L gives ceil(L / hop)
\* windows at the offsets 0, hop, 2*hop, ... < L in increasing order, at least
\* one window when pad_zero is set, and an empty clip gives exactly one
\* all-padding window of weight 0 when pad_zero is set and none otherwise.
C1_Original ==
    (Batched /\ Offset >= 1 /\ Winlen >= 1) =>
        \A k \in 0..(Len(call.input_wavs) - 1) :
            LET L == ClipLen(k)
                n == Cardinality(WindowsOf(k))
            IN  /\ L > 0 => n = Ceil(L, Offset)
                /\ \A m \in 1..n : L > 0 => StartOf(NthWindowOf(k, m)) = (m - 1) * Offset
                /\ call.pad_zero => n >= 1
                /\ L = 0 =>
                     IF call.pad_zero
                     THEN /\ n = 1
                          /\ \A w \in WindowsOf(k) :
                               /\ ret.weights[w] = Rat(0, 1)
                               /\ \A j \in 1..Len(ret.masks[w]) : ~ret.masks[w][j]
                     ELSE n = 0

\* C1 as amended: with hop >= 1 every clip of length L gives ceil(L / hop)
\* windows, the m-th of them starting at offset (m - 1) * hop < L; so a clip
\* with L >= 1 gives at least one window and an empty clip gives none,
\* whatever pad_zero is.
C1_WindowCount ==
    (Batched /\ Offset >= 1) =>
        \A k \in 0..(Len(call.input_wavs) - 1) :
            LET L == ClipLen(k)
                n == Cardinality(WindowsOf(k))
            IN  /\ n = Ceil(L, Offset)
                /\ \A m \in 1..n :
                     /\ StartOf(NthWindowOf(k, m)) = (m - 1) * Offset
                     /\ (m - 1) * Offset < L
                /\ L >= 1 => n >= 1
                /\ L = 0 => n = 0

\* An empty clip and a clip of three windows, the last one short, with padding.
C1_Witness ==
    /\ Batched
    /\ call.pad_zero
    /\ Offset >= 2
    /\ \E k \in 0..(Len(call.input_wavs) - 1) : ClipLen(k) = 0
    /\ \E k \in 0..(Len(call.input_wavs) - 1) :
         /\ Cardinality(WindowsOf(k)) = 3
         /\ ClipLen(k) % Offset # 0

\* The real samples found in the windows tagged with clip k.
Covered(k) ==
    {ret.wavs[w][j] : <<w, j>> \in
        {x \in WindowsOf(k) \X (1..(MaxLen + Winlen)) :
            x[2] <= Len(ret.wavs[x[1]]) /\ ret.masks[x[1]][x[2]]}}

SamplesOf(k) == {call.input_wavs[k + 1][j] : j \in 1..ClipLen(k)}

\* C4 as stated: for any hop >= 1 and window >= 1 the slices taken from a
\* clip cover every sample of it.
C4_Original ==
    (Batched /\ Offset >= 1 /\ Winlen >= 1) =>
        \A k \in 0..(Len(call.input_wavs) - 1) : Covered(k) = SamplesOf(k)

\* C4 as amended: when 1 <= hop <= window the slices taken from a clip cover
\* every sample of it, and they never hold a sample that is not the clip's.
C4_Coverage ==
    (Batched /\ Offset >= 1 /\ Winlen >= 1) =>
        \A k \in 0..(Len(call.input_wavs) - 1) :
            /\ Covered(k) \subseteq SamplesOf(k)
            /\ Offset <= Winlen => Covered(k) = SamplesOf(k)

\* A clip cut into three overlapping windows, the last one short.
C4_Witness ==
    /\ Batched
    /\ Offset >= 1
    /\ Offset < Winlen
    /\ \E k \in 0..(Len(call.input_wavs) - 1) :
         /\ Cardinality(WindowsOf(k)) >= 3
         /\ ClipLen(k) % Offset # 0

\* C5: with pad_zero every window holds winlen samples, its mask has the same
\* length, the mask is true on exactly the first actual_length positions,
\* which hold the samples of the slice, and the samples after them are zero.
C5_PaddedWindows ==
    (Batched /\ call.pad_zero) =>
        \A w \in 1..Len(ret.wavs) :
            /\ Len(ret.wavs[w]) = Winlen
            /\ Len(ret.masks[w]) = Winlen
            /\ ActualLength(w) \in 1..Winlen
            /\ \A j \in 1..Len(ret.masks[w]) :
                 /\ ret.masks[w][j] = (j <= ActualLength(w))
                 /\ j > ActualLength(w) => ret.wavs[w][j] = 0
                 /\ j <= ActualLength(w) =>
                      ret.wavs[w][j] = call.input_wavs[ret.bids[w] + 1][StartOf(w) + j]

\* Padding is on, a full window and a padded window are in one batch.
C5_Witness ==
    /\ Batched
    /\ call.pad_zero
    /\ \E v, w \in 1..Len(ret.wavs) :
         /\ ActualLength(v) = Winlen
         /\ ActualLength(w) < Winlen
         /\ ActualLength(w) >= 2

\* Window w holds no padding: every position of its mask is true.
NoPadding(w) == \A j \in 1..Len(ret.masks[w]) : ret.masks[w][j]

\* The float a is greater than zero and at most one.
InUnitInterval(a) == a.den > 0 /\ 0 < a.num /\ a.num <= a.den

\* C6 as stated: every window has 0 < weight <= 1, and weight == 1 if and
\* only if the window contains no padding.
C6_Original ==
    Batched =>
        \A w \in 1..Len(ret.wavs) :
            /\ InUnitInterval(ret.weights[w])
            /\ (ret.weights[w] = Rat(1, 1)) <=> NoPadding(w)

\* C6 as amended: every window has 0 < weight <= 1 and weight is the number of
\* true mask positions over winlen; weight == 1 if and only if the slice holds
\* winlen real samples, which with pad_zero set is if and only if the window
\* contains no padding (without pad_zero a short window has no padding and a
\* weight below 1).
C6_WeightBound ==
    Batched =>
        \A w \in 1..Len(ret.wavs) :
            LET real == Cardinality({j \in 1..Len(ret.masks[w]) : ret.masks[w][j]})
            IN  /\ InUnitInterval(ret.weights[w])
                /\ ret.weights[w] = Rat(real, Winlen)
                /\ (ret.weights[w] = Rat(1, 1)) <=> (real = Winlen)
                /\ call.pad_zero => ((ret.weights[w] = Rat(1, 1)) <=> NoPadding(w))
                /\ (~call.pad_zero /\ real < Winlen) =>
                     (NoPadding(w) /\ ret.weights[w] # Rat(1, 1))

\* A full window, a padded window, and (in another call) a short unpadded one.
C6_Witness ==
    /\ Batched
    /\ \E v, w \in 1..Len(ret.wavs) :
         /\ ret.weights[v] = Rat(1, 1)
         /\ ret.weights[w] # Rat(1, 1)
         /\ ~NoPadding(w)

\* C10: the four returned lists have one entry per window; the clip id of a
\* window is the position (from 0) of the clip its samples were cut from; the
\* windows come in clip order and, inside a clip, in increasing start offset.
C10_ParallelLists ==
    Batched =>
        /\ Len(ret.wavs) = Len(ret.masks)
        /\ Len(ret.masks) = Len(ret.weights)
        /\ Len(ret.weights) = Len(ret.bids)
        /\ \A w \in 1..Len(ret.bids) :
             /\ ret.bids[w] \in 0..(Len(call.input_wavs) - 1)
             /\ Len(ret.wavs[w]) > 0
             /\ ret.wavs[w][1] # 0
             /\ ClipOfSample(ret.wavs[w][1]) = ret.bids[w]
        /\ \A w \in 1..(Len(ret.bids) - 1) :
             \/ ret.bids[w] < ret.bids[w + 1]
             \/ /\ ret.bids[w] = ret.bids[w + 1]
                /\ StartOf(w) < StartOf(w + 1)

\* Two clips of two or more windows each in one call.
C10_Witness ==
    /\ Batched
    /\ Len(call.input_wavs) = 2
    /\ Cardinality(WindowsOf(0)) >= 2
    /\ Cardinality(WindowsOf(1)) >= 2

\* The windows handed to the collate step differ in sample count.
MixedLengths ==
    \E v, w \in 1..Len(ret.wavs) : Len(ret.wavs[v]) # Len(ret.wavs[w])

\* C8: collating windows of different sample counts fails, the scoring
\* backend is not called and no score comes out.
C8_MixedLengthsRejected ==
    (pc = "collated" /\ MixedLengths) =>
        /\ out.raised # "none"
        /\ out.rows = <<>>
        /\ model_calls = 0

\* Padding is off and a clip ends in a short slice after a full one.
C8_Witness ==
    /\ pc = "collated"
    /\ ~call.pad_zero
    /\ MixedLengths
    /\ out.raised = "RuntimeError"

(* ====================== properties of SpecPredict ===================== *)
\* forward_versa has returned its rows.
Returned == pc = "returned" /\ out.raised = "none"

\* The windows forward_versa cut for the clip at position b (from 1).
FwdWindowsOf(b) == {w \in 1..Len(ret.bids) : ret.bids[w] = b - 1}

\* The start offset of window w of forward_versa, read off its first sample.
FwdStartOf(w) == (ret.wavs[w][1] % (MaxClipLen + 1)) - 1

\* The weight of window w in units of 1 / winlen: its count of real samples.
WeightUnits(w) ==
    ret.weights[w].num * ((WINDOW_SIZE * SAMPLE_RATE) \div ret.weights[w].den)

\* The de-normalized score of window w on axis a.
Score(a, w) ==
    Inverse(predictor.target_transform[a],
            ModelScore(predictor.model, a, ret.wavs[w], ret.masks[w]))

RECURSIVE SetSum(_, _)
SetSum(S, f) ==
    IF S = {} THEN 0
    ELSE LET x == CHOOSE x \in S : TRUE IN f[x] + SetSum(S \ {x}, f)

\* C2: forward_versa returns one row per clip, in clip order, and the score
\* of each axis is the sum of score * weight over the sum of weight, taken over
\* exactly the windows tagged with that clip (0/0, not a number, for a clip
\* with no window); a 25 s clip has windows at 0 s, 10 s, 20 s with weights
\* 1, 1, 1/2 and the score (a0 + a1 + a2/2) / 2.5.
C2_WeightedMean ==
    Returned =>
        /\ Len(out.rows) = Len(call.batch)
        /\ \A b \in 1..Len(call.batch), a \in 1..Len(AXES_NAME) :
             LET W == FwdWindowsOf(b)
                 num == SetSum(W, [w \in W |-> Score(a, w) * WeightUnits(w)])
                 den == SetSum(W, [w \in W |-> WeightUnits(w)])
                 v == out.rows[b][a][2]
             IN  /\ out.rows[b][a][1] = AXES_NAME[a]
                 /\ IF den = 0 THEN v = NaN
                    ELSE v.den > 0 /\ v.num * den = num * v.den
                 /\ Len(call.batch[b].wav) = 25 * SAMPLE_RATE =>
                      \E w0, w1, w2 \in W :
                          /\ W = {w0, w1, w2}
                          /\ FwdStartOf(w0) = 0
                          /\ FwdStartOf(w1) = 10 * SAMPLE_RATE
                          /\ FwdStartOf(w2) = 20 * SAMPLE_RATE
                          /\ ret.weights[w0] = Rat(1, 1)
                          /\ ret.weights[w1] = Rat(1, 1)
                          /\ ret.weights[w2] = Rat(1, 2)
                          /\ v.num * 5 =
                               v.den * (2 * Score(a, w0) + 2 * Score(a, w1) + Score(a, w2))

\* A 25 s clip scored in one batch with another clip of two windows.
C2_Witness ==
    /\ Returned
    /\ Len(call.batch) = 2
    /\ Len(call.batch[1].wav) = 12 * SAMPLE_RATE
    /\ Len(call.batch[2].wav) = 25 * SAMPLE_RATE
    /\ Cardinality(FwdWindowsOf(2)) = 3

\* C3 as stated: a clip whose weights sum to zero (an empty waveform) makes
\* forward_versa end in an error, and no returned row holds a score that is
\* not a number.
C3_ZeroWeightRejected ==
    pc = "returned" =>
        /\ (\E b \in 1..Len(call.batch) : Len(call.batch[b].wav) = 0)
               => out.raised # "none"
        /\ out.raised = "none" =>
               \A b \in 1..Len(out.rows), a \in 1..Len(AXES_NAME) :
                   IsFinite(out.rows[b][a][2])

\* C9 as stated: constructing the predictor with an unsupported precision
\* succeeds, logs a warning and leaves dtype at float32.
C9_PrecisionFallback ==
    (pc = "ready" /\ predictor.precision \notin {"16", "bf16"}) =>
        /\ predictor.raised = "none"
        /\ \E i \in 1..Len(log) :
             log[i].level = "WARNING" /\ log[i].precision = predictor.precision
        /\ predictor.dtype = "float32"

\* C7 as stated: main_predict on a list of clips returns, with one row per
\* entry of its input.
C7_OneRowPerClip ==
    (pc = "main_done" /\ Len(call.input_file) >= 1) =>
        /\ out.raised = "none"
        /\ Len(out.rows) = Len(call.input_file)

=============================================================================
